---- MODULE Spec2Model ----
(***************************************************************************)
(* Impact-GPE: the Emilie du Chatelet impact extrapolator.                 *)
(*                                                                         *)
(* The program is a single React component tree (src/src/App.tsx; the      *)
(* variant with the Linear fit and the fit-type toggle is the listing in   *)
(* src/.github/copilot-instructions.md):                                   *)
(*   - App         the sample table, the fit choice, Play / Reset          *)
(*   - Meteor      the falling marker, advanced once per rendered frame    *)
(*   - EarthWithCrater  the clamp of (depth, radius) into scene units      *)
(*   - extrapolateDepth / extrapolateRadius (+ ...Linear)  the regression  *)
(*                                                                         *)
(* JavaScript numbers are modelled as exact rationals extended with NaN    *)
(* and +/-Infinity (rounding and the sign of zero are not modelled).       *)
(***************************************************************************)
EXTENDS Integers, Sequences, FiniteSets, TLC

VARIABLES
    data,        \* App: useState sample rows, a sequence of [height, depth]
    newRow,      \* App: useState texts of the two "new row" inputs
    fitType,     \* App: useState 'power' | 'linear'
    animate,     \* App: useState animate
    showCrater,  \* App: useState showCrater
    resetKey,    \* App: useState resetKey
    impact,      \* Meteor: useState impact
    position,    \* Meteor: ref.current.position of the marker mesh
    timers,      \* pending setTimeout(() => setAnimate(true), 100) callbacks
    lastCmd,     \* history: the last Play / Reset click (see Play, Reset)
    call         \* the pure function under evaluation (see the *Spec harnesses)

vars == <<data, newRow, fitType, animate, showCrater, resetKey, impact,
          position, timers, lastCmd, call>>

tableVars == <<data, newRow, fitType>>
seqVars == <<animate, showCrater, resetKey, impact, position, timers, lastCmd>>

----------------------------------------------------------------------------
(* Bounds of the model.                                                    *)

MaxSamples == 2      \* Add is disabled once the table holds this many rows
MaxTimers == 2       \* Play is disabled while this many timeouts are pending
MaxResets == 2       \* Reset is disabled once resetKey has reached this
MaxDeltaSteps == 2   \* a frame's delta is 1..MaxDeltaSteps delta steps
DeltaNum == 29       \* one delta step is DeltaNum / DeltaDen seconds
DeltaDen == 200

----------------------------------------------------------------------------
(* JavaScript numbers: finite rationals n/d in lowest terms (d > 0), NaN,  *)
(* +Infinity and -Infinity.  Pos stands for a finite number > 0 that is    *)
(* not kept exactly (an irrational or very large result of Math.exp,       *)
(* Math.pow or Math.sqrt); only its sign and finiteness are known.  An     *)
(* operation whose result Pos does not determine has no CASE arm, so TLC   *)
(* stops with an error rather than continue with a made-up value.          *)

gcd[a \in Nat, b \in Nat] == IF b = 0 THEN a ELSE gcd[b, a % b]

GCD(a, b) == gcd[a, b]

Abs(a) == IF a < 0 THEN -a ELSE a

Rat(n, d) ==
    LET g == GCD(Abs(n), Abs(d))
        s == IF d < 0 THEN -1 ELSE 1
    IN  [k |-> "fin", n |-> (s * n) \div g, d |-> (s * d) \div g]

Int2Num(i) == [k |-> "fin", n |-> i, d |-> 1]
NaN == [k |-> "nan", n |-> 0, d |-> 1]
PosInf == [k |-> "inf", n |-> 1, d |-> 1]
NegInf == [k |-> "inf", n |-> -1, d |-> 1]
Pos == [k |-> "pos", n |-> 1, d |-> 1]
Zero == Int2Num(0)
One == Int2Num(1)

IsNaN(a) == a.k = "nan"
IsFinite(a) == a.k = "fin" \/ a.k = "pos"
IsExact(a) == a.k = "fin"
Sign(a) == IF a.n > 0 THEN 1 ELSE IF a.n < 0 THEN -1 ELSE 0
Inf(s) == IF s > 0 THEN PosInf ELSE NegInf

\* a < b ; false whenever an operand is NaN
NumLess(a, b) ==
    CASE IsNaN(a) \/ IsNaN(b) -> FALSE
      [] a.k = "inf" /\ b.k = "inf" -> a.n < b.n
      [] a.k = "inf" -> a.n < 0
      [] b.k = "inf" -> b.n > 0
      [] a.k = "pos" /\ IsExact(b) /\ Sign(b) <= 0 -> FALSE
      [] b.k = "pos" /\ IsExact(a) /\ Sign(a) <= 0 -> TRUE
      [] IsExact(a) /\ IsExact(b) -> a.n * b.d < b.n * a.d

\* a <= b ; false whenever an operand is NaN
NumLeq(a, b) == ~IsNaN(a) /\ ~IsNaN(b) /\ ~NumLess(b, a)

NumNeg(a) ==
    CASE IsNaN(a) -> NaN
      [] a.k = "inf" \/ IsExact(a) -> [a EXCEPT !.n = -a.n]

NumAdd(a, b) ==
    CASE IsNaN(a) \/ IsNaN(b) -> NaN
      [] a.k = "inf" /\ b.k = "inf" -> IF a.n = b.n THEN a ELSE NaN
      [] a.k = "inf" -> a
      [] b.k = "inf" -> b
      [] (a.k = "pos" \/ b.k = "pos") /\ Sign(a) >= 0 /\ Sign(b) >= 0 -> Pos
      [] IsExact(a) /\ IsExact(b) -> Rat(a.n * b.d + b.n * a.d, a.d * b.d)

NumSub(a, b) == NumAdd(a, NumNeg(b))

NumMul(a, b) ==
    CASE IsNaN(a) \/ IsNaN(b) -> NaN
      [] a.k = "inf" \/ b.k = "inf" ->
            IF Sign(a) * Sign(b) = 0 THEN NaN ELSE Inf(Sign(a) * Sign(b))
      [] (a.k = "pos" \/ b.k = "pos") /\ Sign(a) * Sign(b) = 0 -> Zero
      [] (a.k = "pos" \/ b.k = "pos") /\ Sign(a) * Sign(b) > 0 -> Pos
      [] IsExact(a) /\ IsExact(b) -> Rat(a.n * b.n, a.d * b.d)

\* IEEE division: x/0 is +/-Infinity for x # 0, and 0/0 is NaN
NumDiv(a, b) ==
    CASE IsNaN(a) \/ IsNaN(b) -> NaN
      [] a.k = "inf" /\ b.k = "inf" -> NaN
      [] a.k = "inf" -> IF Sign(b) < 0 THEN NumNeg(a) ELSE a
      [] b.k = "inf" -> Zero
      [] b.n = 0 -> IF a.n = 0 THEN NaN ELSE Inf(Sign(a))
      [] a.n = 0 -> Zero
      [] (a.k = "pos" \/ b.k = "pos") /\ Sign(a) * Sign(b) > 0 -> Pos
      [] IsExact(a) /\ IsExact(b) -> Rat(a.n * b.d, a.d * b.n)

\* Math.min / Math.max: NaN if either argument is NaN.  Against Pos the
\* result is exact when the signs decide it and a finite number > 0 otherwise.
MathMin(a, b) ==
    CASE IsNaN(a) \/ IsNaN(b) -> NaN
      [] a.k = "pos" /\ b.k = "pos" -> Pos
      [] a.k = "pos" -> IF Sign(b) <= 0 THEN b ELSE Pos
      [] b.k = "pos" -> IF Sign(a) <= 0 THEN a ELSE Pos
      [] OTHER -> IF NumLess(b, a) THEN b ELSE a

MathMax(a, b) ==
    CASE IsNaN(a) \/ IsNaN(b) -> NaN
      [] a.k = "pos" /\ b.k = "pos" -> Pos
      [] a.k = "pos" -> IF b.k = "inf" /\ Sign(b) > 0 THEN b ELSE Pos
      [] b.k = "pos" -> IF a.k = "inf" /\ Sign(a) > 0 THEN a ELSE Pos
      [] OTHER -> IF NumLess(a, b) THEN b ELSE a

----------------------------------------------------------------------------
(* Math.log, Math.exp, Math.pow and Math.sqrt.  Logarithms are kept in     *)
(* units of ln 2, which makes them exact on the powers of two; Math.exp    *)
(* undoes the same unit, so slopes, and the products exp(..) * pow(..),    *)
(* are the code's.  Math.log has no arm for another positive argument.     *)

ExactLimit == 1000000   \* larger powers are kept as Pos, not exactly

RECURSIVE IsPow2(_)
IsPow2(n) == n = 1 \/ (n > 1 /\ n % 2 = 0 /\ IsPow2(n \div 2))

RECURSIVE Log2(_)
Log2(n) == IF n = 1 THEN 0 ELSE 1 + Log2(n \div 2)

\* b^e for b >= 1, e >= 0, or 0 when it exceeds ExactLimit
RECURSIVE IntPow(_, _)
IntPow(b, e) ==
    IF e = 0 THEN 1
    ELSE LET r == IntPow(b, e - 1)
         IN  IF r = 0 \/ r > ExactLimit \div b THEN 0 ELSE r * b

\* the largest r in lo..hi with r * r <= n
RECURSIVE ISqrtIn(_, _, _)
ISqrtIn(n, lo, hi) ==
    IF lo >= hi THEN lo
    ELSE LET mid == (lo + hi + 1) \div 2
         IN  IF mid * mid <= n THEN ISqrtIn(n, mid, hi) ELSE ISqrtIn(n, lo, mid - 1)

ISqrt(n) == ISqrtIn(n, 0, IF n < 46340 THEN n ELSE 46340)
IsSquare(n) == ISqrt(n) * ISqrt(n) = n

MathLog(a) ==
    CASE IsNaN(a) -> NaN
      [] a.k = "inf" -> IF Sign(a) > 0 THEN PosInf ELSE NaN
      [] IsExact(a) /\ Sign(a) < 0 -> NaN
      [] IsExact(a) /\ Sign(a) = 0 -> NegInf
      [] IsExact(a) /\ a.d = 1 /\ IsPow2(a.n) -> Int2Num(Log2(a.n))
      [] IsExact(a) /\ a.n = 1 /\ IsPow2(a.d) -> Int2Num(-Log2(a.d))

\* Math.pow(x, s) for an exact x > 0
MathPow(x, s) ==
    CASE IsNaN(s) -> NaN
      [] s.k = "inf" /\ IsExact(x) /\ Sign(x) > 0 ->
            IF x = One THEN NaN
            ELSE IF NumLess(One, x) = (Sign(s) > 0) THEN PosInf ELSE Zero
      [] IsExact(s) /\ s.d = 1 /\ IsExact(x) /\ Sign(x) > 0 ->
            LET pn == IntPow(x.n, Abs(s.n))
                pd == IntPow(x.d, Abs(s.n))
            IN  IF pn = 0 \/ pd = 0 THEN Pos
                ELSE IF s.n >= 0 THEN Rat(pn, pd) ELSE Rat(pd, pn)
      [] IsExact(s) /\ s.d # 1 /\ IsExact(x) /\ Sign(x) > 0 ->
            IF x = One THEN One ELSE Pos

\* Math.exp of a logarithm kept in units of ln 2
MathExp(a) == MathPow(Int2Num(2), a)

MathSqrt(a) ==
    CASE IsNaN(a) -> NaN
      [] a.k = "inf" -> IF Sign(a) > 0 THEN PosInf ELSE NaN
      [] a.k = "pos" -> Pos
      [] IsExact(a) /\ Sign(a) < 0 -> NaN
      [] IsExact(a) /\ Sign(a) >= 0 ->
            IF IsSquare(a.n) /\ IsSquare(a.d)
            THEN Rat(ISqrt(a.n), ISqrt(a.d)) ELSE Pos

\* xs.reduce((a, b) => a + b, 0)
RECURSIVE SumSeq(_)
SumSeq(xs) ==
    IF xs = <<>> THEN Zero
    ELSE NumAdd(SumSeq(SubSeq(xs, 1, Len(xs) - 1)), xs[Len(xs)])

----------------------------------------------------------------------------
(* The sample table (App).                                                 *)

\* the texts a number input can hold in this model
InputTexts == {"", "-1", "1", "2"}

\* Number(text): the empty text converts to 0
Number(s) ==
    CASE s = "" -> Zero
      [] s = "-1" -> Int2Num(-1)
      [] s = "1" -> Int2Num(1)
      [] s = "2" -> Int2Num(2)

Row(h, d) == [height |-> h, depth |-> d]

\* useState([{height: 0.2, depth: 0.2}, {height: 0.4, depth: 0.8}])
InitialData == <<Row(Rat(1, 5), Rat(1, 5)), Row(Rat(2, 5), Rat(4, 5))>>

EmptyRow == [height |-> "", depth |-> ""]

\* data.filter((_, j) => j !== i)
RemoveAt(s, i) == [j \in 1..(Len(s) - 1) |-> IF j < i THEN s[j] ELSE s[j + 1]]

\* onChange of a row's height input: no validation of the new value
EditHeight(i, text) ==
    /\ i \in 1..Len(data)
    /\ data' = [data EXCEPT ![i].height = Number(text)]
    /\ UNCHANGED <<newRow, fitType, seqVars, call>>

\* onChange of a row's depth input: no validation of the new value
EditDepth(i, text) ==
    /\ i \in 1..Len(data)
    /\ data' = [data EXCEPT ![i].depth = Number(text)]
    /\ UNCHANGED <<newRow, fitType, seqVars, call>>

\* the Delete button of row i
Delete(i) ==
    /\ i \in 1..Len(data)
    /\ data' = RemoveAt(data, i)
    /\ UNCHANGED <<newRow, fitType, seqVars, call>>

\* onChange of the new-row height input
SetNewRowHeight(text) ==
    /\ newRow' = [newRow EXCEPT !.height = text]
    /\ UNCHANGED <<data, fitType, seqVars, call>>

\* onChange of the new-row depth input
SetNewRowDepth(text) ==
    /\ newRow' = [newRow EXCEPT !.depth = text]
    /\ UNCHANGED <<data, fitType, seqVars, call>>

\* the Add button: appends only when both texts convert to numbers > 0
Add ==
    /\ Len(data) < MaxSamples
    /\ IF NumLess(Zero, Number(newRow.height)) /\ NumLess(Zero, Number(newRow.depth))
       THEN /\ data' = Append(data, Row(Number(newRow.height), Number(newRow.depth)))
            /\ newRow' = EmptyRow
       ELSE UNCHANGED <<data, newRow>>
    /\ UNCHANGED <<fitType, seqVars, call>>

\* the Curved Line / Straight Line buttons
SetFitType(t) ==
    /\ fitType' = t
    /\ UNCHANGED <<data, newRow, seqVars, call>>

TableNext ==
    \/ \E i \in 1..MaxSamples, text \in InputTexts : EditHeight(i, text)
    \/ \E i \in 1..MaxSamples, text \in InputTexts : EditDepth(i, text)
    \/ \E i \in 1..MaxSamples : Delete(i)
    \/ \E text \in InputTexts : SetNewRowHeight(text)
    \/ \E text \in InputTexts : SetNewRowDepth(text)
    \/ Add
    \/ \E t \in {"power", "linear"} : SetFitType(t)

----------------------------------------------------------------------------
(* The impact animation (App's Play / Reset buttons and Meteor).           *)

StartY == 8          \* position={[0, 8, 0]} and position.set(0, 8, 0)
Speed == 8           \* position.y -= delta * 8
ImpactY == Rat(11, 5)   \* position.y <= 2.2

StartPosition == [x |-> Zero, y |-> Int2Num(StartY), z |-> Zero]

\* the deltas a frame can carry: positive multiples of one delta step
FrameDeltas == {Rat(j * DeltaNum, DeltaDen) : j \in 1..MaxDeltaSteps}

\* Play Animation: setAnimate(false); setShowCrater(false);
\* setTimeout(() => setAnimate(true), 100)
Play ==
    /\ timers < MaxTimers
    /\ animate' = FALSE
    /\ showCrater' = FALSE
    /\ timers' = timers + 1
    /\ lastCmd' = IF lastCmd # "play" /\ ~animate /\ ~showCrater /\ ~impact
                  THEN "play" ELSE "replay"
    /\ UNCHANGED <<resetKey, impact, position, tableVars, call>>

\* a pending timeout of Play fires: setAnimate(true)
TimerFire ==
    /\ timers > 0
    /\ timers' = timers - 1
    /\ animate' = TRUE
    /\ UNCHANGED <<showCrater, resetKey, impact, position, lastCmd, tableVars, call>>

\* Reset as it would be without the effect's position.set(0, 8, 0)
ResetKeepsPosition ==
    /\ resetKey < MaxResets
    /\ animate' = FALSE
    /\ showCrater' = FALSE
    /\ resetKey' = resetKey + 1
    /\ impact' = FALSE
    /\ lastCmd' = "reset"
    /\ UNCHANGED <<position, timers, tableVars, call>>

\* Reset: setAnimate(false); setShowCrater(false); setResetKey(k => k + 1),
\* and Meteor's effect on resetKey: setImpact(false); position.set(0, 8, 0)
Reset ==
    /\ resetKey < MaxResets
    /\ animate' = FALSE
    /\ showCrater' = FALSE
    /\ resetKey' = resetKey + 1
    /\ impact' = FALSE
    /\ position' = StartPosition
    /\ lastCmd' = "reset"
    /\ UNCHANGED <<timers, tableVars, call>>

\* useFrame as it would be with setImpact(true) but without onImpact()
FrameWithoutOnImpact(delta) ==
    /\ IF ~(animate /\ ~showCrater) \/ impact
       THEN UNCHANGED <<position, impact>>
       ELSE LET y == NumSub(position.y, NumMul(delta, Int2Num(Speed)))
            IN  /\ position' = [position EXCEPT !.y = y]
                /\ impact' = NumLeq(y, ImpactY)
    /\ UNCHANGED <<showCrater, animate, resetKey, timers, lastCmd, tableVars, call>>

\* useFrame as it would be with the threshold test left out
FrameWithoutThreshold(delta) ==
    /\ IF ~(animate /\ ~showCrater) \/ impact
       THEN UNCHANGED <<position, impact, showCrater>>
       ELSE /\ position' = [position EXCEPT
                    !.y = NumSub(position.y, NumMul(delta, Int2Num(Speed)))]
            /\ impact' = TRUE
            /\ showCrater' = TRUE
    /\ UNCHANGED <<animate, resetKey, timers, lastCmd, tableVars, call>>

\* useFrame as it would be without the test of the animate prop
FrameIgnoresAnimate(delta) ==
    /\ IF impact
       THEN UNCHANGED <<position, impact, showCrater>>
       ELSE LET y == NumSub(position.y, NumMul(delta, Int2Num(Speed)))
            IN  /\ position' = [position EXCEPT !.y = y]
                /\ IF NumLeq(y, ImpactY)
                   THEN impact' = TRUE /\ showCrater' = TRUE
                   ELSE UNCHANGED <<impact, showCrater>>
    /\ UNCHANGED <<animate, resetKey, timers, lastCmd, tableVars, call>>

\* Meteor's useFrame callback; its animate prop is animate && !showCrater
Frame(delta) ==
    /\ IF ~(animate /\ ~showCrater) \/ impact
       THEN UNCHANGED <<position, impact, showCrater>>
       ELSE LET y == NumSub(position.y, NumMul(delta, Int2Num(Speed)))
            IN  /\ position' = [position EXCEPT !.y = y]
                /\ IF NumLeq(y, ImpactY)
                   THEN impact' = TRUE /\ showCrater' = TRUE
                   ELSE UNCHANGED <<impact, showCrater>>
    /\ UNCHANGED <<animate, resetKey, timers, lastCmd, tableVars, call>>

AnyFrame == \E delta \in FrameDeltas : Frame(delta)

SeqNext ==
    \/ Play
    \/ TimerFire
    \/ Reset
    \/ AnyFrame

----------------------------------------------------------------------------
(* The regression (extrapolateDepth, extrapolateRadius and their Linear    *)
(* variants) and the choice between them by fit type.                      *)

atmosphereHeight == 100000

\* the least-squares closed form on points pts = <<[x, y], ...>>
LeastSquares(pts) ==
    LET n == Int2Num(Len(pts))
        sumX == SumSeq([i \in 1..Len(pts) |-> pts[i].x])
        sumY == SumSeq([i \in 1..Len(pts) |-> pts[i].y])
        sumXX == SumSeq([i \in 1..Len(pts) |-> NumMul(pts[i].x, pts[i].x)])
        sumXY == SumSeq([i \in 1..Len(pts) |-> NumMul(pts[i].x, pts[i].y)])
        slope == NumDiv(NumSub(NumMul(n, sumXY), NumMul(sumX, sumY)),
                        NumSub(NumMul(n, sumXX), NumMul(sumX, sumX)))
        intercept == NumDiv(NumSub(sumY, NumMul(slope, sumX)), n)
    IN  [slope |-> slope, intercept |-> intercept]

\* extrapolateDepth with the guard off by one (data.length < 1)
extrapolateDepthGuardOne(rows, targetHeight) ==
    IF Len(rows) < 1 THEN Zero
    ELSE LET logs == [i \in 1..Len(rows) |->
                        [x |-> MathLog(rows[i].height), y |-> MathLog(rows[i].depth)]]
             fit == LeastSquares(logs)
         IN  NumMul(MathExp(fit.intercept), MathPow(targetHeight, fit.slope))

\* extrapolateDepth returning Math.pow(targetHeight, slope), without
\* the factor Math.exp(intercept)
extrapolateDepthNoIntercept(rows, targetHeight) ==
    IF Len(rows) < 2 THEN Zero
    ELSE LET logs == [i \in 1..Len(rows) |->
                        [x |-> MathLog(rows[i].height), y |-> MathLog(rows[i].depth)]]
             fit == LeastSquares(logs)
         IN  MathPow(targetHeight, fit.slope)

extrapolateDepth(rows, targetHeight) ==
    IF Len(rows) < 2 THEN Zero
    ELSE LET logs == [i \in 1..Len(rows) |->
                        [x |-> MathLog(rows[i].height), y |-> MathLog(rows[i].depth)]]
             fit == LeastSquares(logs)
         IN  NumMul(MathExp(fit.intercept), MathPow(targetHeight, fit.slope))

\* Math.sqrt(depth) of the first row in place of the mean over the rows
AvgKFirstRow(rows) == MathSqrt(rows[1].depth)

\* mean of Math.sqrt(depth) over the rows
AvgK(rows) ==
    NumDiv(SumSeq([i \in 1..Len(rows) |-> MathSqrt(rows[i].depth)]),
           Int2Num(Len(rows)))

\* extrapolateRadius without its "fallback" line
extrapolateRadiusNoFallback(rows, targetHeight) ==
    MathMax(Rat(1, 5),
            NumMul(AvgK(rows), MathSqrt(extrapolateDepth(rows, targetHeight))))

extrapolateRadius(rows, targetHeight) ==
    IF Len(rows) < 2 THEN Rat(7, 10)
    ELSE MathMax(Rat(1, 5),
                 NumMul(AvgK(rows), MathSqrt(extrapolateDepth(rows, targetHeight))))

\* extrapolateDepthLinear returning slope * targetHeight, without the intercept
extrapolateDepthLinearNoIntercept(rows, targetHeight) ==
    IF Len(rows) < 2 THEN Zero
    ELSE LET pts == [i \in 1..Len(rows) |-> [x |-> rows[i].height, y |-> rows[i].depth]]
             fit == LeastSquares(pts)
         IN  NumMul(fit.slope, targetHeight)

extrapolateDepthLinear(rows, targetHeight) ==
    IF Len(rows) < 2 THEN Zero
    ELSE LET pts == [i \in 1..Len(rows) |-> [x |-> rows[i].height, y |-> rows[i].depth]]
             fit == LeastSquares(pts)
         IN  NumAdd(NumMul(fit.slope, targetHeight), fit.intercept)

extrapolateRadiusLinear(rows, targetHeight) ==
    IF Len(rows) < 2 THEN Rat(7, 10)
    ELSE MathMax(Rat(1, 5),
                 NumMul(AvgK(rows), MathSqrt(extrapolateDepthLinear(rows, targetHeight))))

\* App: extrapolated and craterRadius, chosen by fitType
computeExtrapolation(rows, targetHeight, fitModel) ==
    IF fitModel = "power"
    THEN [depth |-> extrapolateDepth(rows, targetHeight),
          radius |-> extrapolateRadius(rows, targetHeight)]
    ELSE [depth |-> extrapolateDepthLinear(rows, targetHeight),
          radius |-> extrapolateRadiusLinear(rows, targetHeight)]

----------------------------------------------------------------------------
(* The clamp into scene units (EarthWithCrater).                           *)

earthRadius == 2
earthDiameterMeters == 12742000
sceneUnitToMeters == NumDiv(Int2Num(earthDiameterMeters), Int2Num(2 * earthRadius))
maxCrater == NumDiv(Int2Num(earthDiameterMeters * 10), sceneUnitToMeters)
MinCrater == Rat(1, 100)

\* the clamp with the radius divided by 100 as the depth is
clampToSceneRadiusScaled(craterDepth, craterRadius) ==
    [depth |-> MathMax(MinCrater, MathMin(NumDiv(craterDepth, Int2Num(100)), maxCrater)),
     radius |-> MathMax(MinCrater, MathMin(NumDiv(craterRadius, Int2Num(100)), maxCrater))]

\* the clamp without its lower bound
clampToSceneNoFloor(craterDepth, craterRadius) ==
    [depth |-> MathMin(NumDiv(craterDepth, Int2Num(100)), maxCrater),
     radius |-> MathMin(craterRadius, maxCrater)]

clampToScene(craterDepth, craterRadius) ==
    [depth |-> MathMax(MinCrater, MathMin(NumDiv(craterDepth, Int2Num(100)), maxCrater)),
     radius |-> MathMax(MinCrater, MathMin(craterRadius, maxCrater))]

\* EarthWithCrater of the variant that draws both fits: each pair is
\* clamped on its own, and each cavity is a sphere of some radius translated
\* to some offset along y.  The Linear cavity takes both from
\* scaleRad = depthLinear / 50.
EarthWithCrater(craterDepth, craterRadius, craterDepthLinear, craterRadiusLinear) ==
    LET power == clampToScene(craterDepth, craterRadius)
        linear == clampToScene(craterDepthLinear, craterRadiusLinear)
        scaleRad == NumDiv(linear.depth, Int2Num(50))
    IN  [fullHemisphereGeometryPower |->
            [radius |-> power.radius,
             offset |-> NumSub(Int2Num(earthRadius), power.depth)],
         fullHemisphereGeometryLinear |->
            [radius |-> scaleRad,
             offset |-> NumSub(Int2Num(earthRadius), scaleRad)]]

----------------------------------------------------------------------------
(* The program.                                                            *)

NoCall == [fn |-> "none"]

Init ==
    /\ data = InitialData
    /\ newRow = EmptyRow
    /\ fitType = "power"
    /\ animate = FALSE
    /\ showCrater = FALSE
    /\ resetKey = 0
    /\ impact = FALSE
    /\ position = StartPosition
    /\ timers = 0
    /\ lastCmd = "none"
    /\ call = NoCall

Next == TableNext \/ SeqNext

Spec == Init /\ [][Next]_vars

SeqSpec == Init /\ [][SeqNext]_vars

TableSpec == Init /\ [][TableNext]_vars

\* the animation together with the Delete buttons of the table
SceneNext ==
    \/ \E i \in 1..MaxSamples : Delete(i)
    \/ SeqNext

SceneSpec == Init /\ [][SceneNext]_vars

\* App's render: extrapolated and craterRadius, for the table's samples
extrapolated ==
    computeExtrapolation(data, Int2Num(atmosphereHeight), fitType).depth

craterRadius ==
    computeExtrapolation(data, Int2Num(atmosphereHeight), fitType).radius

\* EarthWithCrater: {showCrater && (<mesh geometry={fullHemisphereGeometry}>)}
CraterDisplayed == showCrater

----------------------------------------------------------------------------
(* The clamp on its own: every pair of a grid of inputs is clamped, and    *)
(* the pair returned is fed back in once.                                  *)

ClampDepths ==
    {Int2Num(-1), Zero, Rat(1, 2), One, Int2Num(50), Int2Num(500),
     Int2Num(4000), Int2Num(4001), PosInf, NaN}

ClampRadii ==
    {Int2Num(-1), Zero, Rat(1, 200), Rat(1, 100), Rat(1, 5), Rat(7, 10),
     Int2Num(40), Int2Num(41), PosInf, NaN}

NoResult == <<>>

ProgramAtRest ==
    /\ data = InitialData
    /\ newRow = EmptyRow
    /\ fitType = "power"
    /\ animate = FALSE
    /\ showCrater = FALSE
    /\ resetKey = 0
    /\ impact = FALSE
    /\ position = StartPosition
    /\ timers = 0
    /\ lastCmd = "none"

ClampInit ==
    /\ ProgramAtRest
    /\ \E d \in ClampDepths, r \in ClampRadii :
          call = [fn |-> "clampToScene", craterDepth |-> d, craterRadius |-> r,
                  pc |-> "call", round |-> 1, ret |-> NoResult]

ClampReturn ==
    /\ call.fn = "clampToScene"
    /\ call.pc = "call"
    /\ call' = [call EXCEPT !.pc = "returned",
                            !.ret = clampToScene(call.craterDepth, call.craterRadius)]
    /\ UNCHANGED <<tableVars, seqVars>>

ClampFeedBack ==
    /\ call.fn = "clampToScene"
    /\ call.pc = "returned"
    /\ call.round = 1
    /\ call' = [call EXCEPT !.craterDepth = call.ret.depth,
                            !.craterRadius = call.ret.radius,
                            !.pc = "call", !.round = 2, !.ret = NoResult]
    /\ UNCHANGED <<tableVars, seqVars>>

ClampNext == ClampReturn \/ ClampFeedBack

ClampSpec == ClampInit /\ [][ClampNext]_vars

----------------------------------------------------------------------------
(* The regression on its own: every sample sequence of a grid, target and  *)
(* fit model is extrapolated, and the result is handed to the clamp as     *)
(* App hands it to EarthWithCrater.                                        *)

MaxFitSamples == 3

FitRows == {Row(h, d) : h \in {One, Int2Num(2)}, d \in {One, Int2Num(4)}}
FitTargets == {Int2Num(8), Int2Num(atmosphereHeight)}
FitSamples == UNION {[1..n -> FitRows] : n \in 0..MaxFitSamples}

FitInit ==
    /\ ProgramAtRest
    /\ \E rows \in FitSamples, t \in FitTargets, m \in {"power", "linear"} :
          call = [fn |-> "computeExtrapolation", samples |-> rows,
                  targetHeight |-> t, fitModel |-> m,
                  pc |-> "call", ret |-> NoResult, clamped |-> NoResult]

FitReturn ==
    /\ call.fn = "computeExtrapolation"
    /\ call.pc = "call"
    /\ call' = [call EXCEPT !.pc = "returned",
                   !.ret = computeExtrapolation(call.samples, call.targetHeight,
                                                call.fitModel)]
    /\ UNCHANGED <<tableVars, seqVars>>

\* <EarthWithCrater craterDepth={extrapolated} craterRadius={craterRadius} />
FitRender ==
    /\ call.fn = "computeExtrapolation"
    /\ call.pc = "returned"
    /\ call' = [call EXCEPT !.pc = "clamped",
                            !.clamped = clampToScene(call.ret.depth, call.ret.radius)]
    /\ UNCHANGED <<tableVars, seqVars>>

FitNext == FitReturn \/ FitRender

FitSpec == FitInit /\ [][FitNext]_vars

----------------------------------------------------------------------------
(* The Linear fit on its own, on samples and targets that need not be      *)
(* powers of two.                                                          *)

MaxLineSamples == 2

LineRows == {Row(Int2Num(h), Int2Num(d)) : h \in {1, 2, 3}, d \in {1, 4, 5}}
LineTargets == {Int2Num(1), Int2Num(3), Int2Num(10)}
LineSamples == UNION {[1..n -> LineRows] : n \in 0..MaxLineSamples}

\* the (height, depth) points the Linear fit sums over
LinearPoints(rows) ==
    [i \in 1..Len(rows) |-> [x |-> rows[i].height, y |-> rows[i].depth]]

LineInit ==
    /\ ProgramAtRest
    /\ \E rows \in LineSamples, t \in LineTargets :
          call = [fn |-> "extrapolateDepthLinear", data |-> rows,
                  targetHeight |-> t, pc |-> "call", ret |-> NoResult]

LineReturn ==
    /\ call.fn = "extrapolateDepthLinear"
    /\ call.pc = "call"
    /\ call' = [call EXCEPT !.pc = "returned",
                   !.ret = extrapolateDepthLinear(call.data, call.targetHeight)]
    /\ UNCHANGED <<tableVars, seqVars>>

LineSpec == LineInit /\ [][LineReturn]_vars

----------------------------------------------------------------------------
(* The Power fit on its own, on samples and targets that are powers of     *)
(* two, a sample's own height among the targets.                           *)

MaxPowerSamples == 2

PowerRows == {Row(Int2Num(h), Int2Num(d)) : h \in {1, 2, 4}, d \in {1, 4, 16}}
PowerTargets == {Int2Num(1), Int2Num(2), Int2Num(4), Int2Num(8)}
PowerSamples == UNION {[1..n -> PowerRows] : n \in 0..MaxPowerSamples}

\* const logs = data.map(({height, depth}) => ({x: Math.log(height), y: Math.log(depth)}))
Logs(rows) ==
    [i \in 1..Len(rows) |->
        [x |-> MathLog(rows[i].height), y |-> MathLog(rows[i].depth)]]

PowerInit ==
    /\ ProgramAtRest
    /\ \E rows \in PowerSamples, t \in PowerTargets :
          call = [fn |-> "extrapolateDepth", data |-> rows,
                  targetHeight |-> t, pc |-> "call", ret |-> NoResult]

PowerReturn ==
    /\ call.fn = "extrapolateDepth"
    /\ call.pc = "call"
    /\ call' = [call EXCEPT !.pc = "returned",
                   !.ret = extrapolateDepth(call.data, call.targetHeight)]
    /\ UNCHANGED <<tableVars, seqVars>>

PowerSpec == PowerInit /\ [][PowerReturn]_vars

----------------------------------------------------------------------------
(* EarthWithCrater's two cavities on their own: every combination of a     *)
(* grid of Power and Linear pairs is rendered.                             *)

CraterDepths == {Zero, Int2Num(50), Int2Num(500), Int2Num(4001)}
CraterRadii == {Zero, Rat(1, 5), Rat(7, 10), Int2Num(41)}

CraterInit ==
    /\ ProgramAtRest
    /\ \E dp \in CraterDepths, rp \in CraterRadii,
          dl \in CraterDepths, rl \in CraterRadii :
          call = [fn |-> "EarthWithCrater",
                  craterDepth |-> dp, craterRadius |-> rp,
                  craterDepthLinear |-> dl, craterRadiusLinear |-> rl,
                  pc |-> "call", ret |-> NoResult]

CraterRender ==
    /\ call.fn = "EarthWithCrater"
    /\ call.pc = "call"
    /\ call' = [call EXCEPT !.pc = "rendered",
                   !.ret = EarthWithCrater(call.craterDepth, call.craterRadius,
                                           call.craterDepthLinear,
                                           call.craterRadiusLinear)]
    /\ UNCHANGED <<tableVars, seqVars>>

CraterSpec == CraterInit /\ [][CraterRender]_vars

\* the render loop calls useFrame every frame, and a timeout always fires
FairSeqSpec == SeqSpec /\ WF_vars(TimerFire) /\ WF_vars(AnyFrame)

----------------------------------------------------------------------------
(* The sequencer's states, read off the flags.                             *)

Idle == ~animate /\ ~showCrater /\ ~impact
Falling == animate /\ ~showCrater /\ ~impact
Impacted == impact /\ showCrater
AtStart == position = StartPosition
AtThreshold == NumLeq(position.y, ImpactY)

\* lastCmd = "play": the last Play / Reset click was a Play made in Idle, and
\* no Play or Reset has been clicked since (a later Play records "replay").
PlayedFromIdle == lastCmd = "play"

----------------------------------------------------------------------------
(* C1: after a play issued in Idle, and with no further play or reset, the *)
(* frames bring the marker to y <= 2.2; on that frame the impact flag and  *)
(* the crater are set together, and afterwards nothing moves or fires      *)
(* again.                                                                  *)

C1_Eventually ==
    PlayedFromIdle ~> (~PlayedFromIdle \/ (Impacted /\ AtThreshold))

C1_Once ==
    [][ (PlayedFromIdle /\ PlayedFromIdle')
          => /\ (~showCrater /\ showCrater')
                   => (~impact /\ impact' /\ ~AtThreshold /\ AtThreshold')
             /\ (~impact /\ impact') => (~showCrater /\ showCrater')
             /\ impact => (impact' /\ showCrater' /\ position' = position) ]_vars

C1_PlayReachesImpactOnce == C1_Eventually /\ C1_Once

C1_Witness == PlayedFromIdle /\ Impacted /\ AtThreshold

(* C2: every reset step ends in Idle with the marker at (0, 8, 0).          *)
C2_ResetGivesIdle ==
    [][ resetKey' # resetKey => (Idle' /\ AtStart') ]_vars

\* the last of the resets, made while a timeout of Play is still pending
C2_Witness ==
    lastCmd = "reset" /\ resetKey = MaxResets /\ Idle /\ AtStart /\ timers > 0

(* C3: after a reset, and until the next play, the sequencer stays Idle    *)
(* with the marker at its start and the crater hidden.                     *)
C3_IdleUntilPlay == lastCmd = "reset" => (Idle /\ AtStart)

(* C4: the crater is visible only in Impacted with the marker at or below  *)
(* the threshold; it appears only on a frame that crosses the threshold,   *)
(* and every play or reset hides it.                                       *)
C4_Invariant == showCrater => (animate /\ Impacted /\ AtThreshold)

C4_Step ==
    /\ (~showCrater /\ showCrater') => (~AtThreshold /\ AtThreshold')
    /\ (timers' > timers \/ resetKey' # resetKey) => ~showCrater'

C4_CraterOnlyWhenImpacted == []C4_Invariant /\ [][C4_Step]_vars

C4_Witness == showCrater /\ Impacted /\ position.y = ImpactY

(* C5: every stored sample has height > 0 and depth > 0.                   *)
C5_SamplesPositive ==
    \A i \in 1..Len(data) :
        NumLess(Zero, data[i].height) /\ NumLess(Zero, data[i].depth)

----------------------------------------------------------------------------
(* C6: for a finite, non-negative input pair, both clamped values lie in   *)
(* [0.01, maxCrater].                                                      *)

ClampReturned == call.fn = "clampToScene" /\ call.pc = "returned"

FiniteNonNegative(a) == IsExact(a) /\ ~NumLess(a, Zero)

InCraterRange(a) == IsExact(a) /\ NumLeq(MinCrater, a) /\ NumLeq(a, maxCrater)

C6_ClampWithinBounds ==
    (/\ ClampReturned
     /\ FiniteNonNegative(call.craterDepth)
     /\ FiniteNonNegative(call.craterRadius))
        => (InCraterRange(call.ret.depth) /\ InCraterRange(call.ret.radius))

\* an input below the floor in the radius and above the ceiling in the depth
C6_Witness ==
    /\ ClampReturned
    /\ call.round = 1
    /\ call.craterDepth = Int2Num(4001)
    /\ call.craterRadius = Zero
    /\ call.ret = [depth |-> maxCrater, radius |-> MinCrater]

(* C7, as stated: the pair returned, fed back in, is returned unchanged.   *)
C7_Idempotent ==
    (ClampReturned /\ call.round = 2)
        => (call.ret.depth = call.craterDepth /\ call.ret.radius = call.craterRadius)

(* C7, amended: fed back in, the radius is returned unchanged; the depth   *)
(* is divided by 100 again, and is returned unchanged only when it is the  *)
(* floor 0.01.                                                             *)
C7_RadiusIdempotentDepthRescaled ==
    (ClampReturned /\ call.round = 2)
        => /\ call.ret.radius = call.craterRadius
           /\ IsExact(call.craterDepth)
                => /\ call.ret.depth =
                        MathMax(MinCrater, NumDiv(call.craterDepth, Int2Num(100)))
                   /\ (call.ret.depth = call.craterDepth)
                        <=> (call.craterDepth = MinCrater)

\* a clamped depth of 5 comes back as 0.05, beside an unchanged radius
C7_Witness ==
    /\ ClampReturned
    /\ call.round = 2
    /\ call.craterDepth = Int2Num(5)
    /\ call.ret.depth = Rat(1, 20)
    /\ call.ret.radius = call.craterRadius

(* C8: with 0 or 1 samples the predicted depth is 0, for either fit model  *)
(* and every target height.                                                *)
FitReturned == call.fn = "computeExtrapolation" /\ call.pc # "call"

C8_TooFewSamplesDepthZero ==
    (FitReturned /\ Len(call.samples) < 2) => call.ret.depth = Zero

C8_Witness ==
    /\ FitReturned
    /\ Len(call.samples) = 1
    /\ call.fitModel = "linear"
    /\ call.ret.depth = Zero

(* C9, as stated: with fewer than 2 samples the result is depth 0 and the  *)
(* minimum radius 0.2.                                                     *)
C9_FallbackIsMinimumRadius ==
    (FitReturned /\ Len(call.samples) < 2)
        => call.ret = [depth |-> Zero, radius |-> Rat(1, 5)]

(* C9, amended: with fewer than 2 samples the result is depth 0 and the    *)
(* fallback radius 0.7.                                                    *)
C9_FallbackIsPointSeven ==
    (FitReturned /\ Len(call.samples) < 2)
        => call.ret = [depth |-> Zero, radius |-> Rat(7, 10)]

C9_Witness ==
    /\ FitReturned
    /\ Len(call.samples) = 0
    /\ call.fitModel = "power"
    /\ call.ret.radius = Rat(7, 10)

(* C10: with 2 or more samples of one height the fit is reported as a      *)
(* DataError, and no NaN or Infinity is handed to the clamp.               *)
DataError == [k |-> "error", n |-> 0, d |-> 1]

AllHeightsEqual(rows) ==
    \A i, j \in 1..Len(rows) : rows[i].height = rows[j].height

C10_DegenerateFitReported ==
    (FitReturned /\ Len(call.samples) >= 2 /\ AllHeightsEqual(call.samples))
        => /\ call.ret.depth = DataError
           /\ call.pc = "clamped"
                => (IsFinite(call.ret.depth) /\ IsFinite(call.ret.radius))

----------------------------------------------------------------------------
(* C11: while the table holds fewer than 2 samples, the predicted depth is *)
(* 0 and no crater is displayed, also after a play has run to impact.      *)
C11_SafeDefaultScene ==
    Len(data) < 2 => (extrapolated = Zero /\ ~CraterDisplayed)

(* C12: with 2 or more samples, not all of one height, and either fit      *)
(* model, the predicted radius is max(0.2, mean(sqrt(depth)) *             *)
(* sqrt(predicted depth)), a finite number that is at least 0.2.           *)
C12_RadiusDefinedAboveFloor ==
    (FitReturned /\ Len(call.samples) >= 2 /\ ~AllHeightsEqual(call.samples))
        => /\ call.ret.radius =
                MathMax(Rat(1, 5),
                        NumMul(AvgK(call.samples), MathSqrt(call.ret.depth)))
           /\ IsFinite(call.ret.radius)
           /\ IsExact(call.ret.radius) => NumLeq(Rat(1, 5), call.ret.radius)

(* C13: under the Linear model, two samples of distinct heights are fitted *)
(* by the straight line through both, and the prediction at every target   *)
(* lies on that line; for (1,1) and (3,5) the slope is 2, the intercept -1 *)
(* and the prediction at height 10 is 19.                                  *)
LineReturned == call.fn = "extrapolateDepthLinear" /\ call.pc = "returned"

C13_LineThroughBothPoints ==
    (/\ LineReturned
     /\ Len(call.data) = 2
     /\ call.data[1].height # call.data[2].height)
        => LET p == call.data[1]
               q == call.data[2]
               m == NumDiv(NumSub(q.depth, p.depth), NumSub(q.height, p.height))
               fit == LeastSquares(LinearPoints(call.data))
           IN  /\ fit.slope = m
               /\ fit.intercept = NumSub(p.depth, NumMul(m, p.height))
               /\ call.ret =
                    NumAdd(p.depth, NumMul(m, NumSub(call.targetHeight, p.height)))
               /\ call.data = <<Row(Int2Num(1), Int2Num(1)), Row(Int2Num(3), Int2Num(5))>>
                    => /\ fit.slope = Int2Num(2)
                       /\ fit.intercept = Int2Num(-1)
                       /\ call.targetHeight = Int2Num(10) => call.ret = Int2Num(19)

C13_Witness ==
    /\ LineReturned
    /\ call.data = <<Row(Int2Num(1), Int2Num(1)), Row(Int2Num(3), Int2Num(5))>>
    /\ call.targetHeight = Int2Num(10)
    /\ call.ret = Int2Num(19)

(* C14: under the Power model, two samples of distinct heights are fitted  *)
(* by the power law through both: the prediction at a sample's own height  *)
(* is that sample's depth; for (1,1) and (2,4) the log-log slope is 2, the *)
(* intercept 0 and the prediction at height 8 is 64.                       *)
PowerReturned == call.fn = "extrapolateDepth" /\ call.pc = "returned"

C14_PowerLawThroughBothPoints ==
    (/\ PowerReturned
     /\ Len(call.data) = 2
     /\ call.data[1].height # call.data[2].height)
        => LET p == call.data[1]
               q == call.data[2]
               fit == LeastSquares(Logs(call.data))
           IN  /\ fit.slope =
                    NumDiv(NumSub(MathLog(q.depth), MathLog(p.depth)),
                           NumSub(MathLog(q.height), MathLog(p.height)))
               /\ call.targetHeight = p.height => call.ret = p.depth
               /\ call.targetHeight = q.height => call.ret = q.depth
               /\ call.data = <<Row(Int2Num(1), Int2Num(1)), Row(Int2Num(2), Int2Num(4))>>
                    => /\ fit.slope = Int2Num(2)
                       /\ fit.intercept = Zero
                       /\ call.targetHeight = Int2Num(8) => call.ret = Int2Num(64)

C14_Witness ==
    /\ PowerReturned
    /\ call.data = <<Row(Int2Num(1), Int2Num(1)), Row(Int2Num(2), Int2Num(4))>>
    /\ call.targetHeight = Int2Num(8)
    /\ call.ret = Int2Num(64)

(* C15: for both fit models, the predicted depth and radius at a target    *)
(* height are the same for every permutation of the sample sequence.       *)
Reorderings(rows) ==
    {[i \in 1..Len(rows) |-> rows[p[i]]] : p \in Permutations(1..Len(rows))}

C15_OrderIrrelevant ==
    FitReturned
        => \A r \in Reorderings(call.samples) :
              computeExtrapolation(r, call.targetHeight, call.fitModel) = call.ret

\* three samples in an order that is not sorted, with an exact depth
C15_Witness ==
    /\ FitReturned
    /\ call.samples = <<Row(Int2Num(2), Int2Num(4)), Row(Int2Num(1), Int2Num(1)),
                        Row(Int2Num(2), Int2Num(1))>>
    /\ call.fitModel = "linear"
    /\ call.targetHeight = Int2Num(8)
    /\ call.ret.depth = Rat(23, 2)

(* C16: for each fit model the cavity is built from that model's own       *)
(* clamped pair only: the sphere's radius is that model's clamped radius   *)
(* and its offset along the up axis is earthRadius minus that model's      *)
(* clamped depth.                                                          *)
CraterRendered == call.fn = "EarthWithCrater" /\ call.pc = "rendered"

CavityOf(clamped) ==
    [radius |-> clamped.radius,
     offset |-> NumSub(Int2Num(earthRadius), clamped.depth)]

C16_CavityFromOwnClampedPair ==
    CraterRendered
        => /\ call.ret.fullHemisphereGeometryPower =
                CavityOf(clampToScene(call.craterDepth, call.craterRadius))
           /\ call.ret.fullHemisphereGeometryLinear =
                CavityOf(clampToScene(call.craterDepthLinear, call.craterRadiusLinear))

(* C17: maxCrater, the upper bound of both clamps, is 4 times the host     *)
(* sphere's diameter in scene units (16 for earthRadius 2), so no clamped  *)
(* depth or radius exceeds 16.                                             *)
FourDiameters == Int2Num(4 * (2 * earthRadius))

C17_MaxCraterFourDiameters ==
    ClampReturned
        => /\ maxCrater = FourDiameters
           /\ IsExact(call.ret.depth) => NumLeq(call.ret.depth, FourDiameters)
           /\ IsExact(call.ret.radius) => NumLeq(call.ret.radius, FourDiameters)

(* C18: once no further play or reset is clicked, the last click having    *)
(* been a play made in any state, Impacted included, the frames bring the  *)
(* sequencer to Impacted with the crater visible, and it stays there.      *)
NoCommand == timers' <= timers /\ resetKey' = resetKey

C18_PlayAlwaysReachesImpact ==
    <>[][NoCommand]_vars => <>[](lastCmd \in {"play", "replay"} => Impacted)

(* C19: a step that is no play, timeout or reset, that is a frame, changes *)
(* the state only while Falling, and then moves the marker down by         *)
(* 8 * delta and leaves the samples, the fit model and animate alone.      *)
C19_Step ==
    (timers' = timers /\ resetKey' = resetKey)
        => /\ Falling
           /\ \E delta \in FrameDeltas :
                 position' = [position EXCEPT
                    !.y = NumSub(position.y, NumMul(delta, Int2Num(Speed)))]
           /\ data' = data
           /\ fitType' = fitType
           /\ animate' = animate

C19_FrameMovesOnlyWhileFalling == [][C19_Step]_vars

\* Falling, one frame of the shortest delta below the start
C19_Witness ==
    /\ Falling
    /\ position = [StartPosition EXCEPT !.y = Rat(171, 25)]

====
